---------------------------- MODULE Spec2Model ----------------------------
(***************************************************************************)
(* A model of the regular-language engine of regex-eq: the NFA and DFA     *)
(* classes (src/src/regular/nfa.py, src/src/regular/dfa.py) and the        *)
(* Regular facade with its lexer, parser and syntax-tree evaluator         *)
(* (src/regular.py).                                                       *)
(*                                                                         *)
(* States of automata are Python objects compared by identity.  They are   *)
(* modelled as positive integers handed out by an allocation counter: an   *)
(* operation that runs with n objects allocated gets n+1, n+2, ... from    *)
(* its calls of object().  A string is a sequence of one-character         *)
(* strings, the empty string "" labels the epsilon transitions.  A call    *)
(* that raises yields the record [raised |-> <exception>].                 *)
(***************************************************************************)
EXTENDS Integers, Sequences, FiniteSets, TLC

VARIABLES
    kind,      \* what is built: "tree", "text" or "finite" (SpecBuild), "nfa", "regular"
    pattern,   \* SpecBuild: the pattern handed to Regular.from_regex
    tree,      \* SpecBuild: the syntax tree the pattern was written from (kind "tree")
    finite,    \* SpecBuild: the set of strings handed to Regular.from_finite
    ast,       \* SpecBuild: what Parser(pattern).parse() left
    lang,      \* SpecBuild: the Regular built, or what building it raised
    x, y,      \* the two values the program holds (NFAs in SpecNFA, Regulars in Spec)
    dfa,       \* SpecNFA: DFA.from_NFA(x) with the x it was computed from
    last,      \* the last call made on the values held: its operands and its outcome
    nobj,      \* the number of objects allocated so far
    ops        \* the number of operations applied so far

vars == <<kind, pattern, tree, finite, ast, lang, x, y, dfa, last, nobj, ops>>

-----------------------------------------------------------------------------
(* Bounds of the model. *)

\* Longest string given to accept, from_string and from_finite.
MaxLen == 2
\* Most strings of a set given to from_finite.
MaxWords == 2
\* Longest pattern given to from_regex as text.
MaxPattern == 3
\* Most nodes of a syntax tree a pattern is written from.
MaxNodes == 4
\* Most operations applied to the NFAs held.
MaxOps == 2
\* Most operators applied to the Regular values held.
MaxSteps == 1
\* nodes of a pattern x for which x+, xx* and x* are compiled
MaxPlusNodes == 3
\* Most characters of a pattern given to a lexer alone.
MaxLexed == 2

\* The symbols strings and patterns are written with.
Chars == {"a", "b"}
\* The characters of the patterns given as text.
PatternChars == {"a", "|", "*", "(", ")", "\\"}
\* The characters of the patterns given to a lexer alone.
LexedChars == {"a", ".", "*", "+", "?", "|", "(", ")", "[", "]", "\\"}

-----------------------------------------------------------------------------
(* Python values. *)

Eps == ""
\* None, which is no state of any automaton.
None == 0
NoValue == [none |-> TRUE]

Raise(e) == [raised |-> e]
Raised(v) == "raised" \in DOMAIN v

RECURSIVE iter(_)
\* The order in which a loop or a comprehension runs over a set.
iter(s) ==
    IF s = {} THEN <<>>
    ELSE LET e == CHOOSE e \in s : TRUE IN <<e>> \o iter(s \ {e})

Range(f) == {f[i] : i \in DOMAIN f}
Index(seq, e) == CHOOSE i \in DOMAIN seq : seq[i] = e
MaxOf(s) == CHOOSE m \in s : \A e \in s : e <= m

\* The number of objects allocated once automaton m has been built with n allocated before.
Allocated(n, m) == IF Raised(m) THEN n ELSE MaxOf({n} \cup m.Q)

\* d.get((q, c), set())
Get(d, q, c) == IF <<q, c>> \in DOMAIN d THEN d[<<q, c>>] ELSE {}

RECURSIVE StrsOf(_, _)
\* The strings over alphabet s of length at most k.
StrsOf(s, k) ==
    IF k = 0 THEN {<<>>}
    ELSE LET shorter == StrsOf(s, k - 1)
         IN shorter \cup {Append(w, c) : w \in shorter, c \in s}

-----------------------------------------------------------------------------
(* class NFA, src/src/regular/nfa.py *)

NFA(Q, S, d, q0, F) == [Q |-> Q, S |-> S, d |-> d, q0 |-> q0, F |-> F]

NFA_from_string(string, n) ==
    LET states == [i \in 1..(Len(string) + 1) |-> n + i]
        Q == Range(states)
        S == Range(string)
        d == [k \in Q \X (S \cup {Eps}) |->
                IF \E i \in 1..Len(string) : k = <<states[i], string[i]>>
                THEN {k[1] + 1} ELSE {}]
    IN NFA(Q, S, d, states[1], {states[Len(string) + 1]})

NFA_from_alphabet(alphabet, n) ==
    LET q0 == n + 1
        order == iter(alphabet)
        states == [s \in alphabet |-> n + 1 + Index(order, s)]
        Q == Range(states) \cup {q0}
        S == alphabet
        d == [k \in Q \X (S \cup {Eps}) |->
                IF k[1] = q0 /\ k[2] # Eps THEN {states[k[2]]} ELSE {}]
    IN NFA(Q, S, d, q0, Range(states))

\* A copy whose accepting states are still the states of self.
NFA_copy_old_F(self, n) ==
    LET order == iter(self.Q)
        new_states == [q \in self.Q |-> n + Index(order, q)]
        old == [i \in 1..Len(order) |-> order[i]]
        d == [k \in {<<new_states[j[1]], j[2]>> : j \in DOMAIN self.d} |->
                {new_states[q] : q \in self.d[<<old[k[1] - n], k[2]>>]}]
    IN NFA(Range(new_states), self.S, d, new_states[self.q0], self.F)

NFA_copy(self, n) ==
    LET order == iter(self.Q)
        new_states == [q \in self.Q |-> n + Index(order, q)]
        old == [i \in 1..Len(order) |-> order[i]]
        Q == Range(new_states)
        d == [k \in {<<new_states[j[1]], j[2]>> : j \in DOMAIN self.d} |->
                {new_states[q] : q \in self.d[<<old[k[1] - n], k[2]>>]}]
    IN NFA(Q, self.S, d, new_states[self.q0], {new_states[q] : q \in self.F})

\* The dictionary both concat and union build from the two operands' dictionaries.
Merged(Q, S, d1, d2) ==
    [k \in Q \X (S \cup {Eps}) |->
        IF k \in DOMAIN d1 THEN d1[k]
        ELSE IF k \in DOMAIN d2 THEN d2[k]
        ELSE {}]

\* A concat without the epsilon transitions from self.F to other.q0.
NFA_concat_no_link(self, other) ==
    LET Q == self.Q \cup other.Q
        S == self.S \cup other.S
    IN NFA(Q, S, Merged(Q, S, self.d, other.d), self.q0, other.F)

\* A concat whose accepting states are those of both operands.
NFA_concat_keep_F(self, other) ==
    LET Q == self.Q \cup other.Q
        S == self.S \cup other.S
        d0 == Merged(Q, S, self.d, other.d)
        d == [k \in DOMAIN d0 |->
                IF k[1] \in self.F /\ k[2] = Eps THEN d0[k] \cup {other.q0} ELSE d0[k]]
    IN NFA(Q, S, d, self.q0, self.F \cup other.F)

NFA_concat_build(self, other) ==
    LET Q == self.Q \cup other.Q
        S == self.S \cup other.S
        d0 == Merged(Q, S, self.d, other.d)
        d == [k \in DOMAIN d0 |->
                IF k[1] \in self.F /\ k[2] = Eps THEN d0[k] \cup {other.q0} ELSE d0[k]]
    IN IF ~(self.F \subseteq Q) THEN Raise("KeyError")
       ELSE NFA(Q, S, d, self.q0, other.F)

\* A concat that has lost its check of the operands' states.
NFA_concat_no_check(self, other) == NFA_concat_build(self, other)

NFA_concat(self, other) ==
    IF self.Q \cap other.Q # {} THEN Raise("ValueError")
    ELSE NFA_concat_build(self, other)

\* star as src/main.py has it: the new start state is not accepting.
NFA_star_old_F(self, n) ==
    LET q0 == n + 1
        Q == self.Q \cup {q0}
        S == self.S
        d0 == Merged(Q, S, self.d, <<>>)
        d == [k \in DOMAIN d0 |->
                IF k[2] = Eps /\ (k[1] \in self.F \/ k[1] = q0)
                THEN d0[k] \cup {self.q0} ELSE d0[k]]
    IN IF ~(self.F \subseteq Q) THEN Raise("KeyError")
       ELSE NFA(Q, S, d, q0, self.F)

\* A star without the "" transitions from self.F back to self.q0.
NFA_star_no_loop(self, n) ==
    LET q0 == n + 1
        Q == self.Q \cup {q0}
        d0 == Merged(Q, self.S, self.d, <<>>)
        d == [k \in DOMAIN d0 |-> IF k = <<q0, Eps>> THEN d0[k] \cup {self.q0} ELSE d0[k]]
    IN NFA(Q, self.S, d, q0, self.F \cup {q0})

NFA_star(self, n) ==
    LET q0 == n + 1
        Q == self.Q \cup {q0}
        S == self.S
        d0 == Merged(Q, S, self.d, <<>>)
        d == [k \in DOMAIN d0 |->
                IF k[2] = Eps /\ (k[1] \in self.F \/ k[1] = q0)
                THEN d0[k] \cup {self.q0} ELSE d0[k]]
    IN IF ~(self.F \subseteq Q) THEN Raise("KeyError")
       ELSE NFA(Q, S, d, q0, self.F \cup {q0})

NFA_union_build(self, other, n) ==
    LET q0 == n + 1
        Q == self.Q \cup other.Q \cup {q0}
        S == self.S \cup other.S
        d0 == Merged(Q, S, self.d, other.d)
        d == [k \in DOMAIN d0 |->
                IF k = <<q0, Eps>> THEN d0[k] \cup {self.q0, other.q0} ELSE d0[k]]
    IN NFA(Q, S, d, q0, self.F \cup other.F)

NFA_union(self, other, n) ==
    IF self.Q \cap other.Q # {} THEN Raise("ValueError")
    ELSE NFA_union_build(self, other, n)

\* The set objects that concat, star and union put into their dictionary and
\* write in place with |=.  Every other object of a call (Q, S, F, the
\* dictionary itself) is bound and read but never written.  An object is the
\* operand's own value at a key (of |-> "self" or "other") or one the call
\* made (of |-> "new"); elems is what it holds.
NewSet(elems) == [of |-> "new", key |-> <<>>, elems |-> elems]

\* A dictionary whose values are the operands' own sets, not copies of them.
MergedSets_shared(Q, S, d1, d2) ==
    [k \in Q \X (S \cup {Eps}) |->
        IF k \in DOMAIN d1 THEN [of |-> "self", key |-> k, elems |-> d1[k]]
        ELSE IF k \in DOMAIN d2 THEN [of |-> "other", key |-> k, elems |-> d2[k]]
        ELSE NewSet({})]

\* The dictionary comprehension of concat, star and union: set(self.d[q, c]),
\* set(other.d[q, c]) and set() each make a new object.
MergedSets(Q, S, d1, d2) ==
    [k \in Q \X (S \cup {Eps}) |->
        IF k \in DOMAIN d1 THEN NewSet(d1[k])
        ELSE IF k \in DOMAIN d2 THEN NewSet(d2[k])
        ELSE NewSet({})]

\* d[q, ""] |= added, for every key in keys: the object at the key is written.
Updated(d, keys, added) ==
    [k \in DOMAIN d |-> IF k \in keys THEN [d[k] EXCEPT !.elems = @ \cup added] ELSE d[k]]

\* The objects of the dictionary when the call returns; none when it raises
\* before the dictionary is made.
Sets(call, self, other, n) ==
    CASE call = "concat" ->
            IF self.Q \cap other.Q # {} THEN <<>>
            ELSE Updated(MergedSets(self.Q \cup other.Q, self.S \cup other.S, self.d, other.d),
                         self.F \X {Eps}, {other.q0})
      [] call = "union" ->
            IF self.Q \cap other.Q # {} THEN <<>>
            ELSE Updated(MergedSets(self.Q \cup other.Q \cup {n + 1}, self.S \cup other.S,
                                    self.d, other.d),
                         {<<n + 1, Eps>>}, {self.q0, other.q0})
      [] call = "star" ->
            Updated(Updated(MergedSets(self.Q \cup {n + 1}, self.S, self.d, <<>>),
                            self.F \X {Eps}, {self.q0}),
                    {<<n + 1, Eps>>}, {self.q0})

\* The operand m (who is "self" or "other") when the call returns: each of its
\* sets holds what was written to it through the call's dictionary, where the
\* comprehension puts at key (q, c) what it makes of the operand's (q, c).
Operand(who, m, sets) ==
    [m EXCEPT !.d = [k \in DOMAIN m.d |->
        IF k \in DOMAIN sets
        THEN IF sets[k].of = who /\ sets[k].key = k THEN sets[k].elems ELSE m.d[k]
        ELSE m.d[k]]]

RECURSIVE iter_loop(_, _, _)
\* The loop of __iter__: the states it yields, which are the states visited.
iter_loop(self, queue, visited) ==
    IF queue = <<>> THEN visited
    ELSE LET found == UNION {Get(self.d, Head(queue), s) : s \in self.S \cup {Eps}} \ visited
         IN iter_loop(self, Tail(queue) \o iter(found), visited \cup found)

\* NFA.__iter__: the states the iteration over self yields.
NFA_iter(self) == iter_loop(self, <<self.q0>>, {self.q0})

\* is_empty as class DFA has it
NFA_is_empty_by_F(self) == self.F = {}

NFA_is_empty(self) == ~(\E q \in NFA_iter(self) : q \in self.F)

-----------------------------------------------------------------------------
(* class DFA(NFA), src/src/regular/dfa.py *)

\* A DFA whose map has no entries for the empty string.
DFA_no_eps(Q, S, d, q0, F) == NFA(Q, S, [k \in DOMAIN d |-> {d[k]}], q0, F)

\* DFA.__init__: d maps (state, symbol) to one state; the NFA kept maps it to the
\* set of that state, and every (state, "") to the empty set.
DFA(Q, S, d, q0, F) ==
    NFA(Q, S, [k \in Q \X {Eps} |-> {}] @@ [k \in DOMAIN d |-> {d[k]}], q0, F)

RECURSIVE E_loop(_, _, _)
\* The loop of E: the queue and the visited set.
E_loop(d, queue, visited) ==
    IF queue = <<>> THEN visited
    ELSE LET found == Get(d, Head(queue), Eps) \ visited
         IN E_loop(d, Tail(queue) \o iter(found), visited \cup found)

\* The epsilon closure of R in nfa; a missing entry of nfa.d is read as the empty
\* set here, and from_NFA_raises says when the code raises on it instead.
E(nfa, R) == E_loop(nfa.d, iter(R), R)

neighbors(nfa, subset, c) == E(nfa, UNION {Get(nfa.d, q, c) : q \in subset})

RECURSIVE from_NFA_loop(_, _, _)
\* The worklist loop of from_NFA: the subsets found when the queue is empty.
from_NFA_loop(nfa, queue, subsets) ==
    IF queue = <<>> THEN subsets
    ELSE LET found == {neighbors(nfa, Head(queue), c) : c \in nfa.S} \ subsets
         IN from_NFA_loop(nfa, Tail(queue) \o iter(found), subsets \cup found)

from_NFA_subsets(nfa) ==
    LET new_start == E(nfa, {nfa.q0}) IN from_NFA_loop(nfa, <<new_start>>, {new_start})

\* nfa.d[q, c] raises KeyError when nfa.d has no entry for (q, c): E reads
\* (q, "") of every state it visits, the loop (q, c) of every state of a subset.
from_NFA_raises(nfa) ==
    \E subset \in from_NFA_subsets(nfa) : \E q \in subset : \E c \in nfa.S \cup {Eps} :
        <<q, c>> \notin DOMAIN nfa.d

\* The DFA over the given subsets: every subset gets one fresh state.
from_NFA_states(nfa, subsets, n) ==
    LET new_start == E(nfa, {nfa.q0})
        order == iter(subsets)
        states == [R \in subsets |-> n + Index(order, R)]
        Q == Range(states)
        S == nfa.S
        d == [k \in Q \X S |-> states[neighbors(nfa, order[k[1] - n], k[2])]]
        F == {states[R] : R \in {R \in subsets : R \cap nfa.F # {}}}
    IN DFA(Q, S, d, states[new_start], F)

DFA_from_NFA(nfa, n) ==
    IF from_NFA_raises(nfa) THEN Raise("KeyError")
    ELSE from_NFA_states(nfa, from_NFA_subsets(nfa), n)

RECURSIVE accept_loop(_, _, _)
\* The loop of accept: the state reached, or None when self.d[q, c] raises.
accept_loop(self, q, string) ==
    IF string = <<>> THEN q
    ELSE IF <<q, Head(string)>> \notin DOMAIN self.d
            \/ Cardinality(Get(self.d, q, Head(string))) # 1
         THEN None
         ELSE accept_loop(self, CHOOSE r \in self.d[<<q, Head(string)>>] : TRUE, Tail(string))

RECURSIVE accept_error(_, _, _)
\* What the loop of accept raises on string from q, "" when it raises nothing.
accept_error(self, q, string) ==
    IF string = <<>> THEN ""
    ELSE IF <<q, Head(string)>> \notin DOMAIN self.d THEN "KeyError"
    ELSE IF Cardinality(self.d[<<q, Head(string)>>]) # 1 THEN "ValueError"
    ELSE accept_error(self, CHOOSE r \in self.d[<<q, Head(string)>>] : TRUE, Tail(string))

DFA_accept(self, string) ==
    IF accept_error(self, self.q0, string) # ""
    THEN Raise(accept_error(self, self.q0, string))
    ELSE [value |-> accept_loop(self, self.q0, string) \in self.F]

\* A complement that makes every state accepting.
DFA_complement_all(self) ==
    LET keys == {k \in DOMAIN self.d : k[2] # Eps}
    IN DFA(self.Q, self.S, [k \in keys |-> CHOOSE q \in self.d[k] : TRUE], self.q0, self.Q)

DFA_complement(self) ==
    LET keys == {k \in DOMAIN self.d : k[2] # Eps}
    IN IF \E k \in keys : self.d[k] = {} THEN Raise("StopIteration")
       ELSE DFA(self.Q, self.S, [k \in keys |-> CHOOSE q \in self.d[k] : TRUE],
                self.q0, self.Q \ self.F)

\* (x_out,) = m.d[x, s] if s in m.S else {None}; a lookup that raises is read as
\* None here, and intersection_raises says when the code raises on it instead.
pair_step(m, q, s) ==
    IF s \in m.S /\ Cardinality(Get(m.d, q, s)) = 1
    THEN CHOOSE r \in m.d[<<q, s>>] : TRUE
    ELSE None

pair_out(self, other, pair, s) == <<pair_step(self, pair[1], s), pair_step(other, pair[2], s)>>

RECURSIVE intersection_loop(_, _, _, _)
\* The worklist loop of intersection: the pairs found when the queue is empty.
intersection_loop(self, other, queue, pairs) ==
    IF queue = <<>> THEN pairs
    ELSE LET found == {pair_out(self, other, Head(queue), s) : s \in self.S \cup other.S} \ pairs
         IN intersection_loop(self, other, Tail(queue) \o iter(found), pairs \cup found)

intersection_pairs(self, other) ==
    LET pair_start == <<self.q0, other.q0>>
    IN intersection_loop(self, other, <<pair_start>>, {pair_start})

\* m.d[q, s] raises KeyError when m.d has no entry for (q, s), as for q = None,
\* and the unpacking raises ValueError when the entry is no set of one state.
step_raises(m, q, s) == s \in m.S /\ Cardinality(Get(m.d, q, s)) # 1

intersection_raises(self, other) ==
    \E pair \in intersection_pairs(self, other) : \E s \in self.S \cup other.S :
        step_raises(self, pair[1], s) \/ step_raises(other, pair[2], s)

\* The DFA over the given pairs: every pair gets one fresh state.
intersection_states(self, other, pairs, n) ==
    LET order == iter(pairs)
        states == [p \in pairs |-> n + Index(order, p)]
        Q == Range(states)
        S == self.S \cup other.S
        d == [k \in Q \X S |-> states[pair_out(self, other, order[k[1] - n], k[2])]]
        F == {states[p] : p \in {p \in pairs : p[1] \in self.F /\ p[2] \in other.F}}
    IN DFA(Q, S, d, states[<<self.q0, other.q0>>], F)

DFA_intersection(self, other, n) ==
    IF intersection_raises(self, other) THEN Raise("KeyError")
    ELSE intersection_states(self, other, intersection_pairs(self, other), n)

\* DFA.union: DFA.from_NFA(NFA.union(self, other))
DFA_union(self, other, n) ==
    LET nfa == NFA_union(self, other, n)
    IN IF Raised(nfa) THEN nfa ELSE DFA_from_NFA(nfa, Allocated(n, nfa))

\* is_empty looking at the start state only
DFA_is_empty_at_start(self) == self.q0 \notin self.F

DFA_is_empty(self) == self.F = {}

-----------------------------------------------------------------------------
(* class Regular, src/regular.py *)

\* string.printable, cut down to the symbols of the model.
printable == Chars

Regular(d) == [dfa |-> d]

RECURSIVE from_finite_loop(_, _, _)
\* The loop of from_finite over the strings still to add.
from_finite_loop(nfa, strings, n) ==
    IF strings = <<>> THEN nfa
    ELSE LET added == NFA_from_string(Head(strings), n)
             next == NFA_union(nfa, added, Allocated(n, added))
         IN from_finite_loop(next, Tail(strings), Allocated(n, next))

Regular_from_finite(language, n) ==
    LET empty == NFA_from_alphabet({}, n)
        nfa == from_finite_loop(empty, iter(language), Allocated(n, empty))
        made == DFA_from_NFA(nfa, Allocated(n, nfa))
    IN IF Raised(made) THEN made ELSE Regular(made)

Regular_contains(self, w) == DFA_accept(self.dfa, w)

Regular_and(self, other, n) ==
    LET made == DFA_intersection(self.dfa, other.dfa, n)
    IN IF Raised(made) THEN made ELSE Regular(made)

\* Regular(DFA.from_NFA(nfa)), for an nfa that may have raised.
Determinized(nfa, n) ==
    IF Raised(nfa) THEN nfa
    ELSE LET made == DFA_from_NFA(nfa, Allocated(n, nfa))
         IN IF Raised(made) THEN made ELSE Regular(made)

\* __or__ doing what __and__ does
Regular_or_as_and(self, other, n) == Regular_and(self, other, n)

\* __or__ without its except clause
Regular_or_no_copy(self, other, n) == Determinized(DFA_union(self.dfa, other.dfa, n), n)

Regular_or(self, other, n) ==
    LET tried == DFA_union(self.dfa, other.dfa, n)
        copied == NFA_copy(self.dfa, n)
        nfa == IF tried = Raise("ValueError")
               THEN NFA_union(copied, other.dfa, Allocated(n, copied))
               ELSE tried
    IN Determinized(nfa, n)

Regular_invert(self) ==
    LET made == DFA_complement(self.dfa)
    IN IF Raised(made) THEN made ELSE Regular(made)

Regular_add(self, other, n) ==
    LET tried == NFA_concat(self.dfa, other.dfa)
        copied == NFA_copy(self.dfa, n)
        nfa == IF tried = Raise("ValueError") THEN NFA_concat(copied, other.dfa) ELSE tried
    IN Determinized(nfa, n)

Regular_sub(self, other, n) ==
    LET inverted == Regular_invert(other)
    IN IF Raised(inverted) THEN inverted ELSE Regular_and(self, inverted, n)

Regular_xor(self, other, n) ==
    LET left == Regular_sub(self, other, n)
        right == Regular_sub(other, self, Allocated(n, left.dfa))
    IN IF Raised(left) THEN left
       ELSE IF Raised(right) THEN right
       ELSE Regular_or(left, right, Allocated(n, right.dfa))

Regular_bool(self) == ~DFA_is_empty(self.dfa)

\* not self - other and not other - self: the right operand of and is evaluated
\* only when the left one is true.
Regular_eq(self, other, n) ==
    LET left == Regular_sub(self, other, n)
        right == Regular_sub(other, self, Allocated(n, left.dfa))
    IN IF Raised(left) THEN left
       ELSE IF Regular_bool(left) THEN [value |-> FALSE]
       ELSE IF Raised(right) THEN right
       ELSE [value |-> ~Regular_bool(right)]

Regular_lt(self, other, n) ==
    LET diff == Regular_sub(self, other, n)
    IN IF Raised(diff) THEN diff ELSE [value |-> ~Regular_bool(diff)]

\* The number of objects allocated once the operator that gave r has run.
After_op(n, r) == IF Raised(r) THEN n ELSE Allocated(n, r.dfa)

\* l | r, l + r and l == r for l and r the outcomes of operators: an exception
\* of an operand leaves the expression before the operator is called.
or_of(l, r, n) == IF Raised(l) THEN l ELSE IF Raised(r) THEN r ELSE Regular_or(l, r, n)

add_of(l, r, n) == IF Raised(l) THEN l ELSE IF Raised(r) THEN r ELSE Regular_add(l, r, n)

eq_both(l, r, n) == IF Raised(l) THEN l ELSE IF Raised(r) THEN r ELSE Regular_eq(l, r, n)

-----------------------------------------------------------------------------
(* class Token and class Lexer, src/regular.py *)

Token(type, lexeme) == [type |-> type, lexeme |-> lexeme]

CHAR_TOKENS ==
    [c \in {".", "*", "+", "?", "|", "(", ")", "[", "]"} |->
        CASE c = "." -> "DOT"
          [] c = "*" -> "STAR"
          [] c = "+" -> "PLUS"
          [] c = "?" -> "QUESTION"
          [] c = "|" -> "UNION"
          [] c = "(" -> "L_PAREN"
          [] c = ")" -> "R_PAREN"
          [] c = "[" -> "L_BRACKET"
          [] c = "]" -> "R_BRACKET"]

\* Lexer.__init__: the input still unread.
Lexer(regex) == [input |-> regex]

\* A lexer without the state ESCAPE: a backslash is a symbol like any other.
Lexer_next_token_no_escape(input) ==
    IF input = <<>> THEN [token |-> Token("END", ""), input |-> <<>>]
    ELSE IF Head(input) \in DOMAIN CHAR_TOKENS
    THEN [token |-> Token(CHAR_TOKENS[Head(input)], Head(input)), input |-> Tail(input)]
    ELSE [token |-> Token("SYMBOL", Head(input)), input |-> Tail(input)]

\* Lexer.next_token on the input still unread: the token and the input left.
Lexer_next_token(input) ==
    IF input = <<>> THEN [token |-> Token("END", ""), input |-> <<>>]
    ELSE IF Head(input) \in DOMAIN CHAR_TOKENS
    THEN [token |-> Token(CHAR_TOKENS[Head(input)], Head(input)), input |-> Tail(input)]
    ELSE IF Head(input) = "\\"
    THEN IF Tail(input) = <<>>
         THEN [token |-> Token("ERROR", ""), input |-> <<>>]
         ELSE [token |-> Token("SYMBOL", Head(Tail(input))), input |-> Tail(Tail(input))]
    ELSE [token |-> Token("SYMBOL", Head(input)), input |-> Tail(input)]

-----------------------------------------------------------------------------
(* class Node and class Parser, src/regular.py *)

Operator(name) == [operator |-> name]
Node(val, left, right) == [val |-> val, left |-> left, right |-> right]

\* Parser.__init__: the lexer's unread input and the pushback slot.
Parser(regex) == [input |-> regex, pushback |-> NoValue]

\* What a method of the parser leaves: the value returned (a Node, a Token or
\* NoValue for None), the parser afterwards, and what it raised ("" for nothing).
Returned(value, parser) == [value |-> value, parser |-> parser, raised |-> ""]
Failed(message, parser) == [value |-> NoValue, parser |-> parser, raised |-> message]

\* _next_token when the pushback slot is empty: lexed is what the lexer left.
token_lexed(parser, lexed) == Returned(lexed.token, [parser EXCEPT !.input = lexed.input])

\* A _next_token that returns the token pushed back and leaves it in the slot.
next_token_kept(parser) ==
    IF parser.pushback # NoValue
    THEN Returned(parser.pushback, parser)
    ELSE token_lexed(parser, Lexer_next_token(parser.input))

next_token(parser) ==
    IF parser.pushback # NoValue
    THEN Returned(parser.pushback, [parser EXCEPT !.pushback = NoValue])
    ELSE token_lexed(parser, Lexer_next_token(parser.input))

pushback_token(parser, token) ==
    IF parser.pushback = NoValue
    THEN Returned(NoValue, [parser EXCEPT !.pushback = token])
    ELSE Failed("pushback error", parser)

\* _parse_exponent once the next token is taken: got is what _next_token left.
exponent_of(got) ==
    CASE got.value.type = "STAR" ->
            Returned(Node(Operator("STAR"), NoValue, NoValue), got.parser)
      [] got.value.type = "PLUS" ->
            Returned(Node(Operator("PLUS"), NoValue, NoValue), got.parser)
      [] got.value.type = "QUESTION" ->
            Returned(Node(Operator("QUESTION"), NoValue, NoValue), got.parser)
      [] OTHER -> pushback_token(got.parser, got.value)

parse_exponent(parser) == exponent_of(next_token(parser))

RECURSIVE factor_loop(_, _)
\* One turn of the loop of _parse_factor: got is what _parse_exponent left.
factor_turn(expr, got) ==
    IF got.raised # "" THEN got
    ELSE IF got.value = NoValue THEN Returned(expr, got.parser)
    ELSE factor_loop([got.value EXCEPT !.left = expr], got.parser)

\* The loop of _parse_factor over the exponents that follow expr.
factor_loop(expr, parser) == factor_turn(expr, parse_exponent(parser))

RECURSIVE parse_expr(_)

\* _parse_factor after the expression in parentheses: closing is what
\* _next_token left.
factor_closed(expr, closing) ==
    IF closing.value.type # "R_PAREN" THEN Failed("missing ')'", closing.parser)
    ELSE factor_loop(expr, closing.parser)

\* _parse_factor after "(": inner is what _parse_expr left.
factor_group(inner) ==
    IF inner.raised # "" THEN inner
    ELSE IF inner.value = NoValue THEN Failed("syntax error", inner.parser)
    ELSE factor_closed(inner.value, next_token(inner.parser))

\* _parse_factor once the next token is taken: got is what _next_token left.
factor_of(got) ==
    IF got.value.type \in {"SYMBOL", "DOT"}
    THEN factor_loop(Node(got.value, NoValue, NoValue), got.parser)
    ELSE IF got.value.type = "L_PAREN"
    THEN factor_group(parse_expr(got.parser))
    ELSE pushback_token(got.parser, got.value)

parse_factor(parser) == factor_of(next_token(parser))

RECURSIVE term_loop(_, _)
\* One turn of the loop of _parse_term: got is what _parse_factor left.
term_turn(factor1, got) ==
    IF got.raised # "" THEN got
    ELSE IF got.value = NoValue THEN Returned(factor1, got.parser)
    ELSE term_loop(Node(Operator("CONCAT"), factor1, got.value), got.parser)

\* The loop of _parse_term over the factors that follow factor1.
term_loop(factor1, parser) == term_turn(factor1, parse_factor(parser))

\* _parse_term after its first factor: got is what _parse_factor left.
term_of(got) ==
    IF got.raised # "" \/ got.value = NoValue THEN got
    ELSE term_loop(got.value, got.parser)

parse_term(parser) == term_of(parse_factor(parser))

RECURSIVE expr_loop(_, _)
\* The loop of _parse_expr after "|": term2 is what _parse_term left.
expr_union(term1, term2) ==
    IF term2.raised # "" THEN term2
    ELSE IF term2.value = NoValue
    THEN Failed("missing expression after '|'", term2.parser)
    ELSE expr_loop(Node(Operator("UNION"), term1, term2.value), term2.parser)

\* The end of _parse_expr: back is what _pushback_token left.
expr_end(term1, back) ==
    IF back.raised # "" THEN back ELSE Returned(term1, back.parser)

\* One turn of the loop of _parse_expr: got is what _next_token left.
expr_turn(term1, got) ==
    IF got.value.type # "UNION"
    THEN expr_end(term1, pushback_token(got.parser, got.value))
    ELSE expr_union(term1, parse_term(got.parser))

\* The loop of _parse_expr over the terms that follow term1.
expr_loop(term1, parser) == expr_turn(term1, next_token(parser))

\* _parse_expr after its first term: term1 is what _parse_term left.
expr_of(term1) ==
    IF term1.raised # "" THEN term1
    ELSE IF term1.value = NoValue THEN Failed("missing term", term1.parser)
    ELSE expr_loop(term1.value, term1.parser)

parse_expr(parser) == expr_of(parse_term(parser))

Parser_parse(regex) == parse_expr(Parser(regex))

\* PLUS evaluated as STAR is
eval_plus_as_star(a, starred, n) == starred

\* The case PLUS of Node.eval: a + starred, for starred what the star of a gave.
eval_plus(a, starred, n) ==
    IF Raised(starred) THEN starred
    ELSE Regular_add(a, starred, Allocated(n, starred.dfa))

RECURSIVE Node_eval(_, _)
\* Node.eval with n objects allocated: a Regular, or what it raised.
Node_eval(self, n) ==
    IF "operator" \in DOMAIN self.val
    THEN LET a == IF self.left # NoValue THEN Node_eval(self.left, n) ELSE NoValue
             na == IF a = NoValue \/ Raised(a) THEN n ELSE Allocated(n, a.dfa)
             b == IF self.right # NoValue THEN Node_eval(self.right, na) ELSE NoValue
             nb == IF b = NoValue \/ Raised(b) THEN na ELSE Allocated(na, b.dfa)
             starred == Determinized(NFA_star(a.dfa, nb), nb)
             empty_str == Regular_from_finite({<<>>}, nb)
         IN IF Raised(a) THEN a
            ELSE IF Raised(b) THEN b
            ELSE IF a = NoValue THEN Raise("missing left operand")
            ELSE CASE self.val.operator = "UNION" ->
                        IF b = NoValue THEN Raise("TypeError") ELSE Regular_or(a, b, nb)
                   [] self.val.operator = "CONCAT" ->
                        IF b = NoValue THEN Raise("TypeError") ELSE Regular_add(a, b, nb)
                   [] self.val.operator = "STAR" -> starred
                   [] self.val.operator = "PLUS" -> eval_plus(a, starred, nb)
                   [] self.val.operator = "QUESTION" ->
                        IF Raised(empty_str) THEN empty_str
                        ELSE Regular_or(a, empty_str, Allocated(nb, empty_str.dfa))
                   [] OTHER -> Raise("invalid operator")
    ELSE CASE self.val.type = "SYMBOL" -> Regular_from_finite({<<self.val.lexeme>>}, n)
           [] self.val.type = "DOT" -> Regular_from_finite({<<c>> : c \in printable}, n)
           [] OTHER -> Raise("invalid operand")

\* Parser(regex).parse().eval()
Regular_from_regex(regex, n) ==
    LET parsed == Parser_parse(regex)
    IN IF parsed.raised # "" THEN Raise(parsed.raised) ELSE Node_eval(parsed.value, n)

-----------------------------------------------------------------------------
(* Regular expressions as syntax trees: how a tree is written as a pattern,   *)
(* and which strings match it.  The properties of from_regex are stated       *)
(* against these; nothing here is taken from the parser.                      *)

Sym(c) == [op |-> "sym", c |-> c]
Dot == [op |-> "dot"]
Un(o, t) == [op |-> o, l |-> t]
Bin(o, t, u) == [op |-> o, l |-> t, r |-> u]

RECURSIVE TreesOf(_)
\* The trees of exactly k nodes.
TreesOf(k) ==
    IF k = 1 THEN {Sym(c) : c \in Chars} \cup {Dot}
    ELSE {Un(o, t) : o \in {"star", "plus", "question"}, t \in TreesOf(k - 1)}
         \cup UNION {{Bin(o, t, u) : o \in {"union", "concat"},
                                     t \in TreesOf(i), u \in TreesOf(k - 1 - i)} :
                     i \in 1..(k - 2)}

\* Patterns in which all three levels of binding meet, as in a|bc*, (a|b)c* and (a|bc)*.
Layered ==
    LET Exponents == {"star", "plus", "question"}
    IN {Bin("union", Sym(c), Bin("concat", Sym(e), Un(o, Sym(f)))) :
            c \in Chars, e \in Chars, f \in Chars, o \in Exponents}
       \cup {Bin("concat", Bin("union", Sym(c), Sym(e)), Un(o, Sym(f))) :
            c \in Chars, e \in Chars, f \in Chars, o \in Exponents}
       \cup {Un(o, Bin("union", Sym(c), Bin("concat", Sym(e), Sym(f)))) :
            c \in Chars, e \in Chars, f \in Chars, o \in Exponents}

Trees == UNION {TreesOf(k) : k \in 1..MaxNodes} \cup Layered

\* How tightly the operator at the root binds: '|' least, an exponent most.
Binding(t) ==
    CASE t.op = "union" -> 1
      [] t.op = "concat" -> 2
      [] t.op \in {"star", "plus", "question"} -> 3
      [] OTHER -> 4

RECURSIVE Written(_)
\* The pattern of tree t, with parentheses only where the binding needs them.
Written(t) ==
    LET Inner(u, least) ==
            IF Binding(u) < least THEN <<"(">> \o Written(u) \o <<")">> ELSE Written(u)
    IN CASE t.op = "sym" -> <<t.c>>
         [] t.op = "dot" -> <<".">>
         [] t.op = "union" -> Inner(t.l, 1) \o <<"|">> \o Inner(t.r, 2)
         [] t.op = "concat" -> Inner(t.l, 2) \o Inner(t.r, 3)
         [] t.op = "star" -> Inner(t.l, 3) \o <<"*">>
         [] t.op = "plus" -> Inner(t.l, 3) \o <<"+">>
         [] t.op = "question" -> Inner(t.l, 3) \o <<"?">>

RECURSIVE SymbolsOf(_)
\* The symbols of the pattern of t; '.' stands for every printable symbol.
SymbolsOf(t) ==
    CASE t.op = "sym" -> {t.c}
      [] t.op = "dot" -> printable
      [] t.op \in {"union", "concat"} -> SymbolsOf(t.l) \cup SymbolsOf(t.r)
      [] OTHER -> SymbolsOf(t.l)

RECURSIVE Matches(_, _)
\* String w matches tree t under the standard semantics of regular expressions.
Matches(t, w) ==
    LET Split(first, rest, from) ==
            \E i \in from..Len(w) :
                Matches(first, SubSeq(w, 1, i)) /\ Matches(rest, SubSeq(w, i + 1, Len(w)))
    IN CASE t.op = "sym" -> w = <<t.c>>
         [] t.op = "dot" -> Len(w) = 1 /\ w[1] \in printable
         [] t.op = "union" -> Matches(t.l, w) \/ Matches(t.r, w)
         [] t.op = "concat" -> Split(t.l, t.r, 0)
         [] t.op = "star" -> w = <<>> \/ Split(t.l, t, 1)
         [] t.op = "plus" -> Split(t.l, Un("star", t.l), 0)
         [] t.op = "question" -> w = <<>> \/ Matches(t.l, w)

-----------------------------------------------------------------------------
(* SpecBuild: a language is built from a pattern or from a finite set of      *)
(* strings, and strings are then tested against it.                           *)

\* The sets of at most MaxWords strings of at most MaxLen symbols.
Languages == {L \in SUBSET StrsOf(Chars, MaxLen) : Cardinality(L) <= MaxWords}

InitBuild ==
    /\ \/ /\ kind = "tree"
          /\ tree \in Trees
          /\ pattern = Written(tree)
          /\ finite = {}
       \/ /\ kind = "text"
          /\ tree = NoValue
          /\ pattern \in StrsOf(PatternChars, MaxPattern)
          /\ finite = {}
       \/ /\ kind = "finite"
          /\ tree = NoValue
          /\ pattern = <<>>
          /\ finite \in Languages
       \/ /\ kind = "lexer"
          /\ tree = NoValue
          /\ pattern \in StrsOf(LexedChars, MaxLexed)
          /\ finite = {}
    /\ ast = NoValue
    /\ lang = NoValue
    /\ x = IF kind = "lexer" THEN Lexer(pattern) ELSE NoValue
    /\ y = NoValue
    /\ dfa = NoValue
    /\ last = NoValue
    /\ nobj = 0
    /\ ops = 0

\* Regular.from_regex(pattern)
FromRegex ==
    /\ kind \in {"tree", "text"}
    /\ lang = NoValue
    /\ ast' = Parser_parse(pattern)
    /\ lang' = Regular_from_regex(pattern, nobj)
    /\ nobj' = IF Raised(lang') THEN nobj ELSE Allocated(nobj, lang'.dfa)
    /\ UNCHANGED <<kind, pattern, tree, finite, x, y, dfa, last, ops>>

\* Regular.from_finite(finite)
FromFinite ==
    /\ kind = "finite"
    /\ lang = NoValue
    /\ lang' = Regular_from_finite(finite, nobj)
    /\ nobj' = IF Raised(lang') THEN nobj ELSE Allocated(nobj, lang'.dfa)
    /\ UNCHANGED <<kind, pattern, tree, finite, ast, x, y, dfa, last, ops>>

\* w in lang
Contains(w) ==
    /\ lang # NoValue
    /\ ~Raised(lang)
    /\ last' = [call |-> "contains", w |-> w, out |-> Regular_contains(lang, w)]
    /\ UNCHANGED <<kind, pattern, tree, finite, ast, lang, x, y, dfa, nobj, ops>>

\* from_regex("x+") == from_regex("xx*") and from_regex("x+") == from_regex("x*")
\* for x the pattern compiled, of at most MaxPlusNodes nodes; last keeps the
\* three languages as well.
PlusStar ==
    /\ kind = "tree"
    /\ tree \in UNION {TreesOf(k) : k \in 1..MaxPlusNodes}
    /\ lang # NoValue
    /\ ~Raised(lang)
    /\ last = NoValue
    /\ \E plus \in {Regular_from_regex(Written(Un("plus", tree)), nobj)} :
       \E cat \in {Regular_from_regex(Written(Bin("concat", tree, Un("star", tree))),
                                      After_op(nobj, plus))} :
       \E star \in {Regular_from_regex(Written(Un("star", tree)), After_op(nobj, cat))} :
          last' = [call |-> "plus_star", plus |-> plus, cat |-> cat, star |-> star,
                   out |-> [cat |-> eq_both(plus, cat, After_op(nobj, star)),
                            star |-> eq_both(plus, star, After_op(nobj, star))]]
    /\ UNCHANGED <<kind, pattern, tree, finite, ast, lang, x, y, dfa, nobj, ops>>

\* x.next_token(), for x a Lexer of the pattern; last keeps the input the call
\* found unread, the token it returned and the token of the call before it.
NextToken ==
    /\ kind = "lexer"
    /\ \E lexed \in {Lexer_next_token(x.input)} :
          /\ x' = [x EXCEPT !.input = lexed.input]
          /\ last' = [call |-> "next_token", unread |-> x.input, token |-> lexed.token,
                      prior |-> IF last = NoValue THEN NoValue ELSE last.token]
    /\ UNCHANGED <<kind, pattern, tree, finite, ast, lang, y, dfa, nobj, ops>>

NextBuild ==
    \/ NextToken
    \/ FromRegex
    \/ FromFinite
    \/ \E w \in StrsOf(Chars, MaxLen) : Contains(w)
    \/ PlusStar

SpecBuild == InitBuild /\ [][NextBuild]_vars

-----------------------------------------------------------------------------
(* Properties of SpecBuild. *)

\* The language from_regex built from the pattern of a tree is tested here
\* against a string of the pattern's symbols.
TestedOnTree ==
    /\ kind = "tree"
    /\ last # NoValue
    /\ last.call = "contains"
    /\ last.w \in StrsOf(SymbolsOf(tree), MaxLen)

\* C1: for a well-formed pattern (exponents bind tighter than concatenation,
\* concatenation tighter than '|') from_regex returns a language, and a string
\* over the symbols of the pattern is in it exactly when it matches the
\* pattern under the standard semantics of regular expressions.
C1_FromRegexMatches ==
    (kind = "tree" /\ lang # NoValue) =>
        /\ ~Raised(lang)
        /\ \A w \in StrsOf(SymbolsOf(tree), MaxLen) :
               Regular_contains(lang, w) = [value |-> Matches(tree, w)]

\* A pattern with all three levels of binding was compiled, and a string of
\* two symbols was found in its language.
C1_Witness ==
    /\ TestedOnTree
    /\ tree.op = "union"
    /\ tree.r.op = "concat"
    /\ tree.r.r.op = "star"
    /\ Len(last.w) = 2
    /\ last.out = [value |-> TRUE]

\* C3: w in Regular.from_finite(L) is true when w is in L and false
\* otherwise, for every string w, those with symbols of no string of L included.
C3_FromFiniteContains ==
    (kind = "finite" /\ last # NoValue) => last.out = [value |-> last.w \in finite]

\* A pattern cut into its units: "c" for a literal symbol (escaped or not), the
\* character itself for an operator, "\\" for a backslash with nothing after it.
RECURSIVE Units(_)
Units(p) ==
    IF p = <<>> THEN <<>>
    ELSE IF Head(p) = "\\"
    THEN IF Len(p) = 1 THEN <<"\\">> ELSE <<"c">> \o Units(Tail(Tail(p)))
    ELSE IF Head(p) \in {".", "*", "+", "?", "|", "(", ")", "[", "]"}
    THEN <<Head(p)>> \o Units(Tail(p))
    ELSE <<"c">> \o Units(Tail(p))

\* How many of the units u[i..j] are unit c.
Count(u, c, i, j) == Cardinality({k \in i..j : u[k] = c})

\* A term is missing or an opening parenthesis is not closed.
MissingTermOrParen(p) ==
    LET u == Units(p)
    IN \/ p = <<>>
       \/ u # <<>> /\ u[1] \in {"*", "+", "?"}
       \/ \E i \in 1..Len(u) :
            u[i] = "|" /\ (i = Len(u) \/ u[i + 1] \notin {"c", ".", "("})
       \/ \E i \in 1..(Len(u) - 1) : u[i] = "(" /\ u[i + 1] = ")"
       \/ \E i \in 1..Len(u) :
            /\ u[i] = "("
            /\ \A j \in (i + 1)..Len(u) : Count(u, "(", i, j) # Count(u, ")", i, j)

\* C8: from_regex raises, and returns no language, for every pattern with a
\* missing term or an unclosed opening parenthesis: the empty pattern, a
\* pattern starting with an exponent, a '|' not followed by a term, an empty
\* group, a '(' whose ')' is absent.
C8_MalformedRaises ==
    (kind = "text" /\ lang # NoValue /\ MissingTermOrParen(pattern)) => Raised(lang)

\* The number of backslashes the pattern ends with.
RECURSIVE TrailingBackslashes(_)
TrailingBackslashes(p) ==
    IF p = <<>> \/ p[Len(p)] # "\\" THEN 0
    ELSE 1 + TrailingBackslashes(SubSeq(p, 1, Len(p) - 1))

\* The last backslash of the pattern escapes nothing.
DanglingEscape(p) == TrailingBackslashes(p) % 2 = 1

\* C9: from_regex raises for every pattern that ends in a dangling escape,
\* also when the backslash follows a complete expression.
C9_DanglingEscapeRaises ==
    (kind = "text" /\ lang # NoValue /\ DanglingEscape(pattern)) => Raised(lang)

-----------------------------------------------------------------------------
(* SpecNFA: NFAs are built by the constructors of class NFA and by hand, are  *)
(* combined, and x is made deterministic.                                     *)

\* The transition tables of the NFAs built by hand over states q1 and q2, as
\* tests/test_nfa.py builds them: with an entry for every state and every
\* symbol or "", and with the entries of no successor left out.
Tables(q1, q2) ==
    LET full == [k \in {q1, q2} \X {"a", Eps} |->
                    CASE k = <<q1, "a">> -> {q1, q2}
                      [] k = <<q2, Eps>> -> {q1}
                      [] OTHER -> {}]
        chain == [k \in {q1, q2} \X {"a", Eps} |-> IF k = <<q1, "a">> THEN {q2} ELSE {}]
        loop == [k \in {q1, q2} \X {"a", Eps} |-> IF k = <<q1, "a">> THEN {q1} ELSE {}]
        Kept(f) == [k \in {k \in DOMAIN f : f[k] # {}} |-> f[k]]
    IN {full, chain, loop, Kept(full), Kept(chain), Kept(loop)}

\* NFA((Q, S, d, q0, F)) with Q = {q1, q2}, S = {"a"}, q0 = q1, F = {q2}
ByHand(q1, q2) == {NFA({q1, q2}, {"a"}, d, q1, {q2}) : d \in Tables(q1, q2)}

InitNFA ==
    /\ kind = "nfa"
    /\ pattern = <<>>
    /\ tree = NoValue
    /\ finite = {}
    /\ ast = NoValue
    /\ lang = NoValue
    /\ x = NoValue
    /\ y = NoValue
    /\ dfa = NoValue
    /\ last = NoValue
    /\ nobj = 0
    /\ ops = 0

\* The next value made goes to x, the one after it to y.
Store(m) ==
    /\ y = NoValue
    /\ IF x = NoValue THEN x' = m /\ y' = y ELSE x' = x /\ y' = m
    /\ nobj' = Allocated(nobj, m)
    /\ UNCHANGED <<kind, pattern, tree, finite, ast, lang, dfa, last, ops>>

NewFromString(w) == Store(NFA_from_string(w, nobj))

NewFromAlphabet(alphabet) == Store(NFA_from_alphabet(alphabet, nobj))

\* An NFA built by hand over two new states, or, for y, over the start state
\* of x and one new state.
NewByHand ==
    \/ \E m \in ByHand(nobj + 1, nobj + 2) : Store(m)
    \/ /\ x # NoValue
       /\ \E m \in ByHand(x.q0, nobj + 1) : Store(m)

Held == x # NoValue /\ y # NoValue /\ dfa = NoValue

\* The outcome m of a call on x: an automaton replaces x, an exception leaves
\* x as it is; last keeps the call, what it gave and, in kept, the two
\* operands as they are when the call returns.
Outcome(call, other, m) ==
    /\ ops' = ops + 1
    /\ \E sets \in {Sets(call, x, other, nobj)} :
          /\ last' = [call |-> call, self |-> x, other |-> other, out |-> m,
                      kept |-> <<Operand("self", x, sets), Operand("other", other, sets)>>]
          /\ y' = IF other = y THEN Operand("other", y, sets) ELSE y
    /\ IF Raised(m)
       THEN UNCHANGED <<x, nobj>>
       ELSE x' = m /\ nobj' = Allocated(nobj, m)
    /\ UNCHANGED <<kind, pattern, tree, finite, ast, lang, dfa>>

\* x.concat(other), for other one of y and x
Concat(other) ==
    /\ Held
    /\ ops < MaxOps
    /\ Outcome("concat", other, NFA_concat(x, other))

\* x.union(other), for other one of y and x
Union(other) ==
    /\ Held
    /\ ops < MaxOps
    /\ Outcome("union", other, NFA_union(x, other, nobj))

\* x.star()
Star ==
    /\ Held
    /\ ops < MaxOps
    /\ Outcome("star", x, NFA_star(x, nobj))

\* y = x.copy()
Copy ==
    /\ Held
    /\ ops < MaxOps
    /\ ops' = ops + 1
    /\ y' = NFA_copy(x, nobj)
    /\ nobj' = Allocated(nobj, y')
    /\ last' = NoValue
    /\ UNCHANGED <<kind, pattern, tree, finite, ast, lang, x, dfa>>

\* x.is_empty()
IsEmpty ==
    /\ Held
    /\ last' = [call |-> "is_empty", self |-> x, other |-> x,
                out |-> [value |-> NFA_is_empty(x)]]
    /\ UNCHANGED <<kind, pattern, tree, finite, ast, lang, x, y, dfa, nobj, ops>>

\* DFA.from_NFA(x); not taken right after is_empty, which changes neither x
\* nor y, so that every x is made deterministic once.
Determinize ==
    /\ Held
    /\ IF last = NoValue THEN TRUE ELSE last.call # "is_empty"
    /\ dfa' = [of |-> x, out |-> DFA_from_NFA(x, nobj)]
    /\ nobj' = Allocated(nobj, dfa'.out)
    /\ UNCHANGED <<kind, pattern, tree, finite, ast, lang, x, y, last, ops>>

\* DFA.from_NFA(x).intersection(DFA.from_NFA(y)), for the DFA of x that
\* Determinize made; last keeps both DFAs and what intersection gave.
Intersect ==
    /\ dfa # NoValue
    /\ ~Raised(dfa.out)
    /\ IF last = NoValue THEN TRUE ELSE last.call \notin {"intersection", "complement"}
    /\ \E other \in {DFA_from_NFA(y, nobj)} :
          /\ ~Raised(other)
          /\ last' = [call |-> "intersection", self |-> dfa.out, other |-> other,
                      out |-> DFA_intersection(dfa.out, other, Allocated(nobj, other))]
    /\ UNCHANGED <<kind, pattern, tree, finite, ast, lang, x, y, dfa, nobj, ops>>

\* DFA.from_NFA(x).complement(), for the DFA of x that Determinize made
Complement ==
    /\ dfa # NoValue
    /\ ~Raised(dfa.out)
    /\ IF last = NoValue THEN TRUE ELSE last.call \notin {"intersection", "complement"}
    /\ last' = [call |-> "complement", self |-> dfa.out, other |-> dfa.out,
                out |-> DFA_complement(dfa.out)]
    /\ UNCHANGED <<kind, pattern, tree, finite, ast, lang, x, y, dfa, nobj, ops>>

NextNFA ==
    \/ \E w \in StrsOf(Chars, MaxLen) : NewFromString(w)
    \/ \E alphabet \in SUBSET Chars : NewFromAlphabet(alphabet)
    \/ NewByHand
    \/ \E other \in {x, y} : Concat(other)
    \/ \E other \in {x, y} : Union(other)
    \/ Star
    \/ Copy
    \/ IsEmpty
    \/ Determinize
    \/ Intersect
    \/ Complement

SpecNFA == InitNFA /\ [][NextNFA]_vars

-----------------------------------------------------------------------------
(* Claims on SpecNFA                                                          *)

\* The states n can be in after reading w: the states reached from q0 by a path
\* whose symbols spell w, with "" transitions taken freely.  An entry that d
\* leaves out has no successor.
RECURSIVE Closure(_, _)
Closure(n, R) ==
    LET more == R \cup UNION {Get(n.d, q, Eps) : q \in R}
    IN IF more = R THEN R ELSE Closure(n, more)

RECURSIVE After(_, _)
After(n, w) ==
    IF w = <<>>
    THEN Closure(n, {n.q0})
    ELSE LET before == After(n, SubSeq(w, 1, Len(w) - 1))
         IN Closure(n, UNION {Get(n.d, q, w[Len(w)]) : q \in before})

Simulates(n, w) == After(n, w) \cap n.F # {}

\* C2: for every NFA n and every string w over n's alphabet, DFA.from_NFA(n)
\* gives a DFA, and that DFA accepts w exactly when n has an accepting path
\* for w.
C2_FromNFARoundTrip ==
    dfa # NoValue =>
        /\ ~Raised(dfa.out)
        /\ \A w \in StrsOf(dfa.of.S, MaxLen) :
               DFA_accept(dfa.out, w) = [value |-> Simulates(dfa.of, w)]

\* C10: concat and union raise ValueError when the two operands share a state,
\* leaving the operands as the only automata, and give an automaton when
\* the operands share no state.
C10_OverlapRaises ==
    (kind = "nfa" /\ last # NoValue /\ last.call \in {"concat", "union"}) =>
        IF last.self.Q \cap last.other.Q # {}
        THEN last.out = Raise("ValueError") /\ x = last.self
        ELSE ~Raised(last.out) /\ x = last.out

\* concat was called on two automata that share one state and each have a
\* state of their own, and raised
C10_Witness ==
    /\ kind = "nfa"
    /\ last # NoValue
    /\ last.call = "concat"
    /\ last.self.Q \cap last.other.Q # {}
    /\ last.self.Q \ last.other.Q # {}
    /\ last.other.Q \ last.self.Q # {}
    /\ Raised(last.out)

-----------------------------------------------------------------------------
(* Spec: Regular values are made from patterns and finite languages, are      *)
(* combined with the operators of class Regular, and are compared.            *)

\* a, b, a?, a*, a+, aa*, ab and . as patterns
SeedPatterns ==
    {<<"a">>, <<"b">>, <<"a", "?">>, <<"a", "*">>, <<"a", "+">>,
     <<"a", "a", "*">>, <<"a", "b">>, <<".">>}

\* the empty language, the language of the empty string, and {"a"}
SeedLanguages == {{}, {<<>>}, {<<"a">>}}

Init ==
    /\ kind = "regular"
    /\ pattern = <<>>
    /\ tree = NoValue
    /\ finite = {}
    /\ ast = NoValue
    /\ lang = NoValue
    /\ x = NoValue
    /\ y = NoValue
    /\ dfa = NoValue
    /\ last = NoValue
    /\ nobj = 0
    /\ ops = 0

\* The next value made goes to x, the one after it to y.
Keep(r) ==
    /\ y = NoValue
    /\ IF x = NoValue THEN x' = r /\ y' = y ELSE x' = x /\ y' = r
    /\ nobj' = Allocated(nobj, r.dfa)
    /\ UNCHANGED <<kind, pattern, tree, finite, ast, lang, dfa, last, ops>>

NewFromRegex(regex) == Keep(Regular_from_regex(regex, nobj))

NewFromFinite(language) == Keep(Regular_from_finite(language, nobj))

Both == x # NoValue /\ y # NoValue

\* The outcome r of an operator on x and y: a value replaces x, an exception
\* leaves x as it is; last keeps the call and what it gave.
Result(call, r) ==
    /\ ops' = ops + 1
    /\ last' = [call |-> call, self |-> x, other |-> y, out |-> r]
    /\ IF Raised(r)
       THEN UNCHANGED <<x, nobj>>
       ELSE x' = r /\ nobj' = Allocated(nobj, r.dfa)
    /\ UNCHANGED <<kind, pattern, tree, finite, ast, lang, y, dfa>>

\* x & y
And == Both /\ ops < MaxSteps /\ Result("and", Regular_and(x, y, nobj))

\* x | y
Or == Both /\ ops < MaxSteps /\ Result("or", Regular_or(x, y, nobj))

\* x + y
Add == Both /\ ops < MaxSteps /\ Result("add", Regular_add(x, y, nobj))

\* x - y
Sub == Both /\ ops < MaxSteps /\ Result("sub", Regular_sub(x, y, nobj))

\* x ^ y
Xor == Both /\ ops < MaxSteps /\ Result("xor", Regular_xor(x, y, nobj))

\* ~x
Invert == Both /\ ops < MaxSteps /\ Result("invert", Regular_invert(x))

\* last is what a constructor or an operator left.  A comparison changes last
\* alone, so a comparison that follows another one reaches the states that it
\* reaches from here, and comparisons are taken from here only.
Unanswered ==
    IF last = NoValue THEN TRUE
    ELSE last.call \in {"and", "or", "add", "sub", "xor", "invert"}

\* What a comparison or a coercion gave; no value is made or changed.
Answer(call, other, out) ==
    /\ Unanswered
    /\ last' = [call |-> call, self |-> x, other |-> other, out |-> out]
    /\ UNCHANGED <<kind, pattern, tree, finite, ast, lang, x, y, dfa, nobj, ops>>

\* x == other, for other one of y and x
Eq(other) == Both /\ Answer("eq", other, Regular_eq(x, other, nobj))

\* x < other, for other one of y and x
Lt(other) == Both /\ Answer("lt", other, Regular_lt(x, other, nobj))

\* bool(x)
Bool == Both /\ Answer("bool", x, [value |-> Regular_bool(x)])

\* ~(~x) == x; last keeps ~x and ~(~x) as well.
InvertTwice ==
    /\ Both
    /\ LET once == Regular_invert(x)
           twice == IF Raised(once) THEN once ELSE Regular_invert(once)
       IN Answer("invert_twice", [once |-> once, twice |-> twice],
                 IF Raised(twice) THEN twice ELSE Regular_eq(twice, x, nobj))

\* made == other, for made the outcome of an operator: what the operator raised
\* if it raised, and what == gives otherwise.
eq_of(made, other, n) ==
    IF Raised(made) THEN made ELSE Regular_eq(made, other, Allocated(n, made.dfa))

\* x | x == x and x & x == x; last keeps x | x and x & x as well.
Idempotent ==
    /\ Both
    /\ Answer("idempotent",
              [or |-> Regular_or(x, x, nobj), and |-> Regular_and(x, x, nobj)],
              [or |-> eq_of(Regular_or(x, x, nobj), x, nobj),
               and |-> eq_of(Regular_and(x, x, nobj), x, nobj)])

\* x + e == to, for e a value made for the comparison; last keeps e and x + e
\* as well.
AddLaw(call, e, to) ==
    Answer(call,
           [e |-> e, sum |-> Regular_add(x, e, Allocated(nobj, e.dfa))],
           eq_of(Regular_add(x, e, Allocated(nobj, e.dfa)), to, Allocated(nobj, e.dfa)))

\* x + empty_str == x
AddEmptyStr == Both /\ AddLaw("add_empty_str", Regular_from_finite({<<>>}, nobj), x)

\* x + empty_lang == empty_lang
AddEmptyLang ==
    /\ Both
    /\ AddLaw("add_empty_lang", Regular_from_finite({}, nobj), Regular_from_finite({}, nobj))

\* a + (b | c) == a + b | a + c for a, b, c = x, y, c; last keeps c and both
\* sides as well.  The law applies operators, and it is taken of values that
\* fewer than MaxSteps operators made.
Distributive(c) ==
    /\ Both
    /\ ops < MaxSteps
    /\ Unanswered
    /\ \E bc \in {or_of(y, c, After_op(nobj, c))} :
       \E left \in {add_of(x, bc, After_op(After_op(nobj, c), bc))} :
       \E ab \in {add_of(x, y, After_op(After_op(nobj, c), left))} :
       \E ac \in {add_of(x, c, After_op(After_op(After_op(nobj, c), left), ab))} :
       \E n \in {After_op(After_op(After_op(After_op(nobj, c), left), ab), ac)} :
       \E right \in {or_of(ab, ac, n)} :
          Answer("distributive", [c |-> c, left |-> left, right |-> right],
                 eq_both(left, right, After_op(n, right)))

\* The values that c takes: x and y themselves, and b made anew.
Thirds == {x, y, Regular_from_regex(<<"b">>, nobj)}

Next ==
    \/ \E regex \in SeedPatterns : NewFromRegex(regex)
    \/ \E language \in SeedLanguages : NewFromFinite(language)
    \/ And
    \/ Or
    \/ Add
    \/ Sub
    \/ Xor
    \/ Invert
    \/ \E other \in {x, y} : Eq(other)
    \/ \E other \in {x, y} : Lt(other)
    \/ Bool
    \/ InvertTwice
    \/ Idempotent
    \/ AddEmptyStr
    \/ AddEmptyLang
    \/ \E c \in Thirds : Distributive(c)

Spec == Init /\ [][Next]_vars

-----------------------------------------------------------------------------
(* Claims on Spec                                                             *)

\* The state m is in after reading symbol c in state q.  None stands for the
\* state of a string that m cannot read on: one with a symbol outside m.S.
Move(m, q, c) ==
    IF q = None \/ c \notin m.S \/ Get(m.d, q, c) = {} THEN None
    ELSE CHOOSE p \in m.d[<<q, c>>] : TRUE

RECURSIVE PairsLoop(_, _, _)
PairsLoop(a, b, seen) ==
    LET more == seen \cup {<<Move(a, pq[1], c), Move(b, pq[2], c)>> :
                               pq \in seen, c \in a.S \cup b.S}
    IN IF more = seen THEN seen ELSE PairsLoop(a, b, more)

\* The pairs of states that a and b are in after reading one string.
Pairs(a, b) == PairsLoop(a, b, {<<a.q0, b.q0>>})

\* a and b accept the same strings
SameLanguage(a, b) == \A pq \in Pairs(a, b) : (pq[1] \in a.F) = (pq[2] \in b.F)

\* every string that a accepts, b accepts
Included(a, b) == \A pq \in Pairs(a, b) : pq[1] \in a.F => pq[2] \in b.F

RECURSIVE ReachLoop(_, _)
ReachLoop(m, seen) ==
    LET more == seen \cup UNION {Get(m.d, q, c) : q \in seen, c \in m.S \cup {Eps}}
    IN IF more = seen THEN seen ELSE ReachLoop(m, more)

\* The states of m that some string leads to from q0.
Reachable(m) == ReachLoop(m, {m.q0})

Compared(call) == kind = "regular" /\ last # NoValue /\ last.call = call

\* C4: a == b gives a boolean for any two Regular values, alphabets equal or
\* not, and it is true exactly when a and b accept the same strings.
C4_EqSameLanguage ==
    Compared("eq") =>
        last.out = [value |-> SameLanguage(last.self.dfa, last.other.dfa)]

\* C5: a < b is true exactly when every string that a accepts is accepted by
\* b, also when a's alphabet has symbols that b's has not.
C5_LtIsInclusion ==
    Compared("lt") =>
        last.out = [value |-> Included(last.self.dfa, last.other.dfa)]

\* C6: a < b is true only if the language of a is contained in the language
\* of b and differs from it; a < a is false.
C6_LtIsProper ==
    (Compared("lt") /\ last.out = [value |-> TRUE]) =>
        /\ Included(last.self.dfa, last.other.dfa)
        /\ ~SameLanguage(last.self.dfa, last.other.dfa)

\* C7: bool(a) is false exactly when no accepting state of a's DFA is
\* reachable from q0, is_empty (F = {}) says the same, and the DFA has no
\* accepting state that is unreachable from q0; for every value made by
\* from_NFA, intersection and complement.
C7_BoolIsEmptiness ==
    Compared("bool") =>
        LET m == last.self.dfa
        IN /\ last.out = [value |-> Reachable(m) \cap m.F # {}]
           /\ DFA_is_empty(m) = (Reachable(m) \cap m.F = {})
           /\ m.F \subseteq Reachable(m)

\* bool(a) was false for a value that an operator made and whose DFA has more
\* than one state
C7_Witness ==
    /\ Compared("bool")
    /\ last.out = [value |-> FALSE]
    /\ ops > 0
    /\ Cardinality(last.self.dfa.Q) > 1

-----------------------------------------------------------------------------
(* Further claims on SpecNFA                                                  *)

Called(call) == kind = "nfa" /\ last # NoValue /\ last.call = call

RECURSIVE SubsetsLoop(_, _, _)
SubsetsLoop(n, m, seen) ==
    LET more == seen \cup
                  {<<Move(m, qR[1], c), Closure(n, UNION {Get(n.d, r, c) : r \in qR[2]})>> :
                      qR \in seen, c \in n.S}
    IN IF more = seen THEN seen ELSE SubsetsLoop(n, m, more)

\* The pairs of the state that DFA m is in and the set of states that NFA n
\* can be in after reading one string.
Subsets(n, m) == SubsetsLoop(n, m, {<<m.q0, Closure(n, {n.q0})>>})

\* C20: for every NFA the subset construction ends with a DFA; its states are
\* fresh and at most 2^|Q|, every state stands for one reachable subset and
\* every reachable subset has one state, a state is accepting exactly when
\* its subset has an accepting state of the NFA, and the state of the empty
\* subset is not accepting and every symbol leads from it to itself.
C20_SubsetConstruction ==
    dfa # NoValue =>
        /\ ~Raised(dfa.out)
        /\ dfa.out.Q \cap dfa.of.Q = {}
        /\ Cardinality(dfa.out.Q) <= 2 ^ Cardinality(dfa.of.Q)
        /\ LET pairs == Subsets(dfa.of, dfa.out)
           IN /\ {qR[1] : qR \in pairs} = dfa.out.Q
              /\ \A qR \in pairs : \A pT \in pairs : (qR[1] = pT[1]) = (qR[2] = pT[2])
              /\ \A qR \in pairs : (qR[1] \in dfa.out.F) = (qR[2] \cap dfa.of.F # {})
              /\ \A qR \in pairs :
                    qR[2] = {} =>
                        /\ qR[1] \notin dfa.out.F
                        /\ \A c \in dfa.of.S : Move(dfa.out, qR[1], c) = qR[1]

-----------------------------------------------------------------------------
(* Further claims on Spec                                                     *)

\* C12: ~(~a) == a for every Regular value a; complement keeps the state set,
\* the alphabet, the start state and the transitions and replaces F by Q - F,
\* so that the second complement restores the DFA of a.
C12_DoubleComplement ==
    Compared("invert_twice") =>
        LET m == last.self.dfa
            once == last.other.once
            twice == last.other.twice
        IN /\ last.out = [value |-> TRUE]
           /\ once.dfa = [m EXCEPT !.F = m.Q \ m.F]
           /\ twice.dfa = m

\* ~(~a) == a was true of a value that an operator made and whose DFA has
\* accepting and non-accepting states
C12_Witness ==
    /\ Compared("invert_twice")
    /\ last.out = [value |-> TRUE]
    /\ ops > 0
    /\ last.self.dfa.F # {}
    /\ last.self.dfa.F # last.self.dfa.Q

\* C13: a | a == a and a & a == a for every Regular value a, and neither fails
\* with the error for overlapping states although both operands have the same
\* states: a | a and a & a are values, they accept what a accepts, and both
\* comparisons give True.
C13_Idempotence ==
    Compared("idempotent") =>
        /\ ~Raised(last.other.or)
        /\ ~Raised(last.other.and)
        /\ SameLanguage(last.other.or.dfa, last.self.dfa)
        /\ SameLanguage(last.other.and.dfa, last.self.dfa)
        /\ last.out = [or |-> [value |-> TRUE], and |-> [value |-> TRUE]]

\* both comparisons were true of a value that an operator made and whose DFA
\* has accepting and non-accepting states
C13_Witness ==
    /\ Compared("idempotent")
    /\ last.out = [or |-> [value |-> TRUE], and |-> [value |-> TRUE]]
    /\ ops > 0
    /\ last.self.dfa.F # {}
    /\ last.self.dfa.F # last.self.dfa.Q

\* C14: a + from_finite({""}) == a for every Regular value a: the sum is a
\* value, it accepts what a accepts, and the comparison gives True.
C14_EmptyStringIsUnit ==
    Compared("add_empty_str") =>
        /\ ~Raised(last.other.sum)
        /\ SameLanguage(last.other.sum.dfa, last.self.dfa)
        /\ last.out = [value |-> TRUE]

\* the comparison was true of a value that an operator made and whose DFA
\* has accepting and non-accepting states
C14_Witness ==
    /\ Compared("add_empty_str")
    /\ last.out = [value |-> TRUE]
    /\ ops > 0
    /\ last.self.dfa.F # {}
    /\ last.self.dfa.F # last.self.dfa.Q

\* C15: a + from_finite(set()) == from_finite(set()) for every Regular value
\* a: the sum is a value that accepts no string, and the comparison gives
\* True although the sum has the alphabet of a and the empty language has the
\* empty alphabet.
C15_EmptyLanguageIsZero ==
    Compared("add_empty_lang") =>
        /\ ~Raised(last.other.sum)
        /\ Reachable(last.other.sum.dfa) \cap last.other.sum.dfa.F = {}
        /\ last.other.sum.dfa.S = last.self.dfa.S
        /\ last.other.e.dfa.S = {}
        /\ last.out = [value |-> TRUE]

\* the comparison was true of a value whose language is not empty and whose
\* alphabet is not empty
C15_Witness ==
    /\ Compared("add_empty_lang")
    /\ last.out = [value |-> TRUE]
    /\ last.self.dfa.F # {}
    /\ last.self.dfa.S # {}
    /\ last.other.sum.dfa.S # last.other.e.dfa.S

\* C16: a + (b | c) == (a + b) | (a + c) for all Regular values a, b and c:
\* both sides are values, they accept the same strings, and the comparison
\* gives True.
C16_Distributive ==
    Compared("distributive") =>
        /\ ~Raised(last.other.left)
        /\ ~Raised(last.other.right)
        /\ SameLanguage(last.other.left.dfa, last.other.right.dfa)
        /\ last.out = [value |-> TRUE]

\* the comparison was true of three values with three different languages,
\* none of them empty, and two different alphabets
C16_Witness ==
    /\ Compared("distributive")
    /\ last.out = [value |-> TRUE]
    /\ ~SameLanguage(last.self.dfa, y.dfa)
    /\ ~SameLanguage(last.self.dfa, last.other.c.dfa)
    /\ ~SameLanguage(y.dfa, last.other.c.dfa)
    /\ last.self.dfa.S # y.dfa.S
    /\ Reachable(last.self.dfa) \cap last.self.dfa.F # {}
    /\ Reachable(y.dfa) \cap y.dfa.F # {}
    /\ Reachable(last.other.left.dfa) \cap last.other.left.dfa.F # {}

RECURSIVE Read(_, _)
\* The state m is in after reading w, None when w has a symbol outside m.S.
Read(m, w) ==
    IF w = <<>> THEN m.q0
    ELSE Move(m, Read(m, SubSeq(w, 1, Len(w) - 1)), w[Len(w)])

\* m has an entry for every state and every symbol and for the empty string:
\* one state of m for a symbol, no state for the empty string.
Total(m) ==
    /\ DOMAIN m.d = m.Q \X (m.S \cup {Eps})
    /\ \A q \in m.Q :
          /\ m.d[<<q, Eps>>] = {}
          /\ \A s \in m.S : Cardinality(m.d[<<q, s>>]) = 1 /\ m.d[<<q, s>>] \subseteq m.Q

\* C18: DFA.intersection of two total DFAs, whatever their alphabets S1 and
\* S2, raises nothing and returns a total DFA over S1 \cup S2 that accepts
\* exactly the strings that both operands accept.
C18_IntersectionTotal ==
    Compared("and") =>
        LET a == last.self.dfa
            b == last.other.dfa
        IN /\ Total(a) /\ Total(b)
           /\ ~Raised(last.out)
           /\ last.out.dfa.S = a.S \cup b.S
           /\ Total(last.out.dfa)
           /\ \A w \in StrsOf(a.S \cup b.S, MaxLen) :
                 (Read(last.out.dfa, w) \in last.out.dfa.F)
                     = (Read(a, w) \in a.F /\ Read(b, w) \in b.F)

\* C19: every DFA that from_NFA, complement and intersection produce has one
\* successor for every state and symbol of its alphabet and none for the
\* empty string, and accept raises on no string over the alphabet.
C19_Totality ==
    kind = "regular" =>
        \A r \in {x, y} \ {NoValue} :
            /\ Total(r.dfa)
            /\ \A w \in StrsOf(r.dfa.S, MaxLen) : ~Raised(DFA_accept(r.dfa, w))

\* x is the difference of two values with different alphabets, made by
\* complement and intersection from values that from_NFA made, and has more
\* than one state
C19_Witness ==
    /\ Compared("sub")
    /\ ~Raised(last.out)
    /\ x = last.out
    /\ last.self.dfa.S # last.other.dfa.S
    /\ Cardinality(x.dfa.Q) > 1
    /\ x.dfa.F # {}

-----------------------------------------------------------------------------
(* Claims on the product construction, on SpecNFA                             *)

Intersected == kind = "nfa" /\ last # NoValue /\ last.call = "intersection"

\* C21: DFA.intersection ends with a DFA in which every pair of states
\* reachable from (q0, q0') has exactly one state and every state stands for
\* one such pair, so that no pair was taken from the worklist twice; the DFA
\* has at most |Q1| x |Q2| states, all reachable from its start state, and
\* exactly one transition for every state and symbol.
C21_ProductConstruction ==
    Intersected =>
        /\ ~Raised(last.out)
        /\ Cardinality(last.out.Q) = Cardinality(Pairs(last.self, last.other))
        /\ Cardinality(last.out.Q) <= Cardinality(last.self.Q) * Cardinality(last.other.Q)
        /\ Reachable(last.out) = last.out.Q
        /\ Total(last.out)

-----------------------------------------------------------------------------
(* Claims on star, on SpecNFA                                                 *)

RECURSIVE InStar(_, _)
\* w is a concatenation of strings that n accepts: the empty string is, and
\* so is a string that n accepts a non-empty prefix of, the rest being one.
InStar(n, w) ==
    IF w = <<>> THEN TRUE
    ELSE \E k \in 1..Len(w) :
            /\ Simulates(n, SubSeq(w, 1, k))
            /\ InStar(n, SubSeq(w, k + 1, Len(w)))

\* C22: star adds one fresh start state with a "" transition to the old
\* start state, gives every old accepting state a "" transition to the old
\* start state, keeps every other transition, and makes the accepting states
\* the old ones and the new start state; the starred automaton accepts the
\* empty string, and it accepts a string exactly when the string is a
\* concatenation of strings that the operand accepts.
C22_StarIsKleeneStar ==
    Called("star") =>
        LET n == last.self
            m == last.out
        IN /\ ~Raised(m)
           /\ m.q0 \notin n.Q
           /\ m.Q = n.Q \cup {m.q0}
           /\ m.S = n.S
           /\ m.F = n.F \cup {m.q0}
           /\ DOMAIN m.d = m.Q \X (m.S \cup {Eps})
           /\ \A k \in DOMAIN m.d :
                 m.d[k] = IF k = <<m.q0, Eps>> THEN {n.q0}
                          ELSE IF k[1] \in n.F /\ k[2] = Eps
                          THEN Get(n.d, k[1], Eps) \cup {n.q0}
                          ELSE Get(n.d, k[1], k[2])
           /\ Simulates(m, <<>>)
           /\ \A w \in StrsOf(n.S, MaxLen + 2) : Simulates(m, w) = InStar(n, w)

\* star was called on an automaton that does not accept the empty string,
\* and the starred automaton accepts a string of two strings of the operand
C22_Witness ==
    /\ Called("star")
    /\ ~Raised(last.out)
    /\ ~Simulates(last.self, <<>>)
    /\ \E w \in StrsOf(last.self.S, MaxLen + 2) :
          /\ Simulates(last.out, w)
          /\ ~Simulates(last.self, w)
          /\ w # <<>>

-----------------------------------------------------------------------------
(* Further claims on SpecBuild                                                *)

Lexed == kind = "lexer" /\ last # NoValue

\* C24: next_token returns END at the end of the input and on every call
\* after that; the unit token of the character for each of . * + ? | ( ) [ ];
\* ERROR for a backslash that ends the input; one SYMBOL with lexeme c for a
\* backslash followed by any character c; SYMBOL for any other character.
\* It consumes the characters of the token and nothing else.
C24_LexerRules ==
    Lexed =>
        LET u == last.unread
            units == <<".", "*", "+", "?", "|", "(", ")", "[", "]">>
            types == <<"DOT", "STAR", "PLUS", "QUESTION", "UNION",
                       "L_PAREN", "R_PAREN", "L_BRACKET", "R_BRACKET">>
        IN /\ IF u = <<>>
              THEN last.token = Token("END", "") /\ x.input = <<>>
              ELSE IF \E i \in 1..9 : units[i] = u[1]
              THEN /\ \E i \in 1..9 : units[i] = u[1] /\ last.token = Token(types[i], u[1])
                   /\ x.input = Tail(u)
              ELSE IF u[1] = "\\"
              THEN IF Len(u) = 1
                   THEN last.token = Token("ERROR", "") /\ x.input = <<>>
                   ELSE last.token = Token("SYMBOL", u[2]) /\ x.input = Tail(Tail(u))
              ELSE last.token = Token("SYMBOL", u[1]) /\ x.input = Tail(u)
           /\ (last.prior # NoValue /\ last.prior.type = "END") => last.token.type = "END"

\* an escaped operator character was lexed as one SYMBOL, and the call after
\* it returned END
C24_Witness ==
    /\ Lexed
    /\ pattern = <<"\\", "*">>
    /\ last.prior = Token("SYMBOL", "*")
    /\ last.token = Token("END", "")

\* The keys (state, symbol or "") that the transition map of n leaves out.
Omitted(n) == (n.Q \X (n.S \cup {Eps})) \ DOMAIN n.d

\* n with every omitted entry filled in with the empty set.
Filled(n) ==
    [n EXCEPT !.d = [k \in DOMAIN n.d \cup Omitted(n) |->
                        IF k \in DOMAIN n.d THEN n.d[k] ELSE {}]]

\* C26: DFA.from_NFA on an NFA whose transition map omits entries completes,
\* and the DFA it gives accepts the language of the DFA made from the same NFA
\* with the omitted entries filled in with empty sets.
C26_OmittedEntriesAsEmpty ==
    (kind = "nfa" /\ dfa # NoValue /\ Omitted(dfa.of) # {}) =>
        IF Raised(dfa.out) THEN FALSE
        ELSE SameLanguage(dfa.out, DFA_from_NFA(Filled(dfa.of), nobj))

\* concat, union or star was called on NFAs.
Operated == kind = "nfa" /\ last # NoValue /\ last.call \in {"concat", "union", "star"}

\* C27: no operation mutates its operands.  When concat, union or star
\* returns or raises, both operands (state set, alphabet, every entry of the
\* transition map, start state, accepting set) are what they were when it was
\* called and so accept what they accepted, the sets written in place being
\* sets of the result; the NFA that from_NFA was given and the DFA that
\* intersection was called on are unchanged as well.
C27_OperandsUnchanged ==
    /\ Operated =>
          /\ last.kept = <<last.self, last.other>>
          /\ \A w \in StrsOf(last.self.S, MaxLen) :
                Simulates(last.kept[1], w) = Simulates(last.self, w)
          /\ \A w \in StrsOf(last.other.S, MaxLen) :
                Simulates(last.kept[2], w) = Simulates(last.other, w)
          /\ last.other # last.self => y = last.other
          /\ ~Raised(last.out) =>
                LET sets == Sets(last.call, last.self, last.other, last.out.q0 - 1)
                IN last.out.d = [k \in DOMAIN sets |-> sets[k].elems]
    /\ (kind = "nfa" /\ dfa # NoValue) => dfa.of = x
    /\ Intersected => last.self = dfa.out

\* concat returned: the set of an accepting state of self was copied and
\* other.q0 added to the copy, and self still has the set without it
C27_Witness ==
    /\ Operated
    /\ last.call = "concat"
    /\ ~Raised(last.out)
    /\ \E q \in last.self.F :
          /\ <<q, Eps>> \in DOMAIN last.self.d
          /\ last.other.q0 \in last.out.d[<<q, Eps>>]
          /\ last.other.q0 \notin last.kept[1].d[<<q, Eps>>]

\* The invariant of an automaton: q0 in Q, F within Q, every key and every
\* destination of d a state of Q, and "" no symbol of the alphabet.
WellFormed(m) ==
    /\ m.q0 \in m.Q
    /\ m.F \subseteq m.Q
    /\ \A k \in DOMAIN m.d : k[1] \in m.Q /\ m.d[k] \subseteq m.Q
    /\ Eps \notin m.S

\* C28: every automaton that from_string, from_alphabet, copy, concat, union,
\* star, from_NFA, complement and intersection give is well formed.
C28_WellFormed ==
    kind = "nfa" =>
        /\ x # NoValue => WellFormed(x)
        /\ y # NoValue => WellFormed(y)
        /\ (dfa # NoValue /\ ~Raised(dfa.out)) => WellFormed(dfa.out)
        /\ IF last = NoValue THEN TRUE
           ELSE (last.call \in {"concat", "union", "star", "intersection", "complement"}
                    /\ ~Raised(last.out)) => WellFormed(last.out)

\* the complement of the DFA of an NFA that two operations made, with an
\* accepting state and a state that is not accepting
C28_Witness ==
    /\ kind = "nfa"
    /\ ops = MaxOps
    /\ last # NoValue
    /\ last.call = "complement"
    /\ last.out.F # {}
    /\ last.out.F # last.out.Q
    /\ WellFormed(last.out)

\* C25: for every pattern, well-formed or not, _pushback_token is never called
\* while the slot holds a token: parse() never raises "pushback error", and
\* what it leaves in the slot is nothing or one token.
C25_PushbackNeverFull ==
    (kind \in {"tree", "text"} /\ ast # NoValue) =>
        /\ ast.raised # "pushback error"
        /\ \/ ast.parser.pushback = NoValue
           \/ DOMAIN ast.parser.pushback = {"type", "lexeme"}

\* parse() returned from a pattern with a group: the ')' was pushed back in
\* _parse_exponent, _parse_factor and _parse_expr and taken again each time,
\* and the END after it is what stays in the slot.
C25_Witness ==
    /\ kind = "text"
    /\ ast # NoValue
    /\ ast.raised = ""
    /\ pattern = <<"(", "a", ")">>
    /\ ast.parser.pushback = Token("END", "")

\* parse() returned a tree for the pattern.
Parsed == kind \in {"tree", "text"} /\ ast # NoValue /\ ast.raised = ""

\* C23: whenever Parser.parse() returns a tree, every token before END has
\* been consumed into the tree: the lexer has no input left and the token
\* that the parser stopped at, which it pushed back, is END.
C23_WholePatternParsed ==
    Parsed =>
        /\ ast.parser.input = <<>>
        /\ ast.parser.pushback # NoValue
        /\ ast.parser.pushback.type = "END"

PlusStarCompared == kind = "tree" /\ last # NoValue /\ last.call = "plus_star"

\* C17: for every pattern x the language of x+ is the language of xx*, and it
\* differs from the language of x* when x does not match the empty string:
\* the three patterns compile, from_regex("x+") == from_regex("xx*") is True,
\* and from_regex("x+") == from_regex("x*") is False for such an x.
C17_PlusIsCatStar ==
    PlusStarCompared =>
        /\ ~Raised(last.plus) /\ ~Raised(last.cat) /\ ~Raised(last.star)
        /\ SameLanguage(last.plus.dfa, last.cat.dfa)
        /\ last.out.cat = [value |-> TRUE]
        /\ ~Matches(tree, <<>>) =>
               /\ ~SameLanguage(last.plus.dfa, last.star.dfa)
               /\ last.out.star = [value |-> FALSE]

\* the comparisons were made for a pattern with an operator that does not
\* match the empty string
C17_Witness ==
    /\ PlusStarCompared
    /\ tree.op \in {"union", "concat"}
    /\ ~Matches(tree, <<>>)
    /\ last.out = [cat |-> [value |-> TRUE], star |-> [value |-> FALSE]]

=============================================================================
